---- MODULE Spec2Model ----
(***************************************************************************)
(* Model of src/app.py: the DocTags parse / extract / export pipeline of   *)
(* the SmolDocling demo application.                                       *)
(*                                                                         *)
(* Python values are modelled as follows.                                  *)
(*   str            a TLA+ string (SubSeq, Len and \o work on strings)     *)
(*   list           a sequence                                             *)
(*   dict           a sequence of <<key, value>> pairs with distinct keys, *)
(*                  in insertion order                                     *)
(*   float          an integer (the bbox tokens of the model are digit     *)
(*                  strings, whose float value is that integer exactly)    *)
(*   DataFrame      [columns |-> list of str, data |-> list of rows]; the  *)
(*                  index is the RangeIndex 0..n-1 pandas gives a frame    *)
(*                  built from a list of rows                              *)
(*   a call         [exc |-> "", value |-> v] when it returns v,           *)
(*                  [exc |-> "<ExceptionName>"] when it raises             *)
(***************************************************************************)
EXTENDS Integers, Sequences, FiniteSets, TLC

VARIABLES
    doctags_xml,                \* the DocTags document handed to parse_doctags
    parsed_document,            \* st.session_state.parsed_document
    financial_metrics,          \* st.session_state.financial_metrics
    visualization_elements,     \* st.session_state.visualization_elements
    extracted_df_csv_content,   \* st.session_state.extracted_df_csv_content
    extracted_json_content,     \* st.session_state.extracted_json_content
    assigned,                   \* the names of the fields of st.session_state that are
                                \* not None
    raised,                     \* the exception the last call raised, "" if none
    extract_cache,              \* the st.cache_data store of extract_financial_metrics
    extract_calls,              \* history: the argument and outcome of each extract call
    page,                       \* the page the sidebar radio selects
    uploaded_file,              \* the file the st.file_uploader widget holds, <<>> if none
    uploaded_pdf_file,          \* st.session_state.uploaded_pdf_file
    last_run                    \* history: the PDF and page number of the latest
                                \* "Process Document" run, <<>> if there was none

vars == <<doctags_xml, parsed_document, financial_metrics, visualization_elements,
          extracted_df_csv_content, extracted_json_content, assigned, raised,
          extract_cache, extract_calls, page, uploaded_file, uploaded_pdf_file,
          last_run>>

\* the widgets of the "Upload Document" page and the latest processing run
upload_vars == <<page, uploaded_file, uploaded_pdf_file, last_run>>

---------------------------------------------------------------------------
(* Bounds of the model.                                                    *)

MaxElements == 2    \* elements of a DocTags document handed to parse_doctags
MaxTables == 2      \* tables of a parsed document handed to extract / export
MaxCalls == 2       \* calls of extract_financial_metrics in one session

---------------------------------------------------------------------------
(* Python built-ins.                                                       *)

Min(S) == CHOOSE x \in S : \A y \in S : x <= y
Max(S) == CHOOSE x \in S : \A y \in S : x >= y

Return(v) == [exc |-> "", value |-> v]
Raise(e) == [exc |-> e]

CharAt(s, i) == SubSeq(s, i, i)

Whitespace == {" ", "\t", "\n"}

\* str.strip()
strip(s) ==
    LET keep == {i \in 1..Len(s) : CharAt(s, i) \notin Whitespace}
    IN  IF keep = {} THEN "" ELSE SubSeq(s, Min(keep), Max(keep))

UpperCase == "ABCDEFGHIJKLMNOPQRSTUVWXYZ"
LowerCase == "abcdefghijklmnopqrstuvwxyz"

UpperChars == {CharAt(UpperCase, k) : k \in 1..Len(UpperCase)}

LowerOf ==
    [c \in UpperChars |->
        CharAt(LowerCase, CHOOSE k \in 1..Len(UpperCase) : CharAt(UpperCase, k) = c)]

LowerChar(c) == IF c \in UpperChars THEN LowerOf[c] ELSE c

\* str.lower()
RECURSIVE lower(_)
lower(s) == IF s = "" THEN "" ELSE LowerChar(CharAt(s, 1)) \o lower(SubSeq(s, 2, Len(s)))

\* needle in hay
Contains(needle, hay) ==
    \E i \in 0..(Len(hay) - Len(needle)) : SubSeq(hay, i + 1, i + Len(needle)) = needle

\* s.split(sep)[0]
SplitFirst(s, sep) ==
    LET at == {i \in 1..Len(s) : CharAt(s, i) = sep}
    IN  IF at = {} THEN s ELSE SubSeq(s, 1, Min(at) - 1)

\* str.split(): the maximal runs of non-whitespace characters, in order
RECURSIVE split(_)
split(s) ==
    LET keep == {i \in 1..Len(s) : CharAt(s, i) \notin Whitespace}
    IN  IF keep = {} THEN <<>>
        ELSE LET first == Min(keep)
                 stops == {i \in first..Len(s) : CharAt(s, i) \in Whitespace}
                 last == IF stops = {} THEN Len(s) ELSE Min(stops) - 1
             IN  <<SubSeq(s, first, last)>> \o split(SubSeq(s, last + 1, Len(s)))

Digits == "0123456789"

DigitChars == {CharAt(Digits, k) : k \in 1..Len(Digits)}

DigitValue(c) == (CHOOSE k \in 1..Len(Digits) : CharAt(Digits, k) = c) - 1

IsDigit(c) == c \in DigitChars

RECURSIVE DecimalValue(_)
DecimalValue(tok) ==
    IF tok = "" THEN 0
    ELSE 10 * DecimalValue(SubSeq(tok, 1, Len(tok) - 1)) + DigitValue(CharAt(tok, Len(tok)))

\* float(tok), for tokens over digits and letters: a non-empty digit string is
\* its value, anything else raises ValueError
float(tok) ==
    IF tok # "" /\ \A i \in 1..Len(tok) : IsDigit(CharAt(tok, i))
    THEN Return(DecimalValue(tok))
    ELSE Raise("ValueError")

\* str(n) for n >= 0
RECURSIVE str(_)
str(n) == IF n < 10 THEN CharAt(Digits, n + 1) ELSE str(n \div 10) \o CharAt(Digits, (n % 10) + 1)

---------------------------------------------------------------------------
(* DocTags documents: the elements of the markup, in document order.       *)

Otsl(bbox, header, rows) ==
    [tag |-> "otsl", bbox |-> bbox, header |-> header, rows |-> rows, text |-> ""]

Text(bbox, text) ==
    [tag |-> "text", bbox |-> bbox, header |-> <<>>, rows |-> <<>>, text |-> text]

Title(bbox, text) ==
    [tag |-> "title", bbox |-> bbox, header |-> <<>>, rows |-> <<>>, text |-> text]

\* SmolDoclingClient.process_document_page: the one document the simulated
\* model returns
FixtureXml ==
    << Title("60 60 400 90", "FinTech Corp Financial Report 2023"),
       Text("60 110 550 180",
            "\n  FinTech Corp delivered robust performance in fiscal year 2023. \n"),
       Otsl("60 200 550 350",
            <<"Metric", "2023 (in Millions)">>,
            << <<"Total Revenue", "$1234.56">>,
               <<"Operating Expenses", "$850.00">>,
               <<"Net Income", "$384.56">>,
               <<"Earnings Per Share (EPS)", "0.52">> >>),
       Text("60 360 550 380",
            "\n  Management expects continued growth of 5-7% in the upcoming fiscal year.\n") >>

---------------------------------------------------------------------------
(* parse_doctags                                                           *)

find_all_limit1(xml, tag) == SubSeq(SelectSeq(xml, LAMBDA e : e.tag = tag), 1, Min({1, Len(SelectSeq(xml, LAMBDA e : e.tag = tag))}))

\* soup.find_all(tag)
find_all(xml, tag) == SelectSeq(xml, LAMBDA e : e.tag = tag)

\* [cell.text.strip() for cell in ....find_all('cell')]
StripCells(cells) == [i \in 1..Len(cells) |-> strip(cells[i])]

KeepRowLoose(cells, headers) == Len(cells) <= Len(headers)

\* if len(cells) == len(headers)
KeepRow(cells, headers) == Len(cells) = Len(headers)

\* the loop over otsl.find_all('row') that fills table_data
TableData(otsl) ==
    LET headers == StripCells(otsl.header)
        cells == [i \in 1..Len(otsl.rows) |-> StripCells(otsl.rows[i])]
    IN  SelectSeq(cells, LAMBDA c : KeepRow(c, headers))

\* pd.DataFrame(table_data, columns=headers)
DataFrame(table_data, headers) == [columns |-> headers, data |-> table_data]

\* [float(x) for x in tag['bbox'].split()]
ParseBBox(attr) ==
    LET toks == split(attr)
        vals == [i \in 1..Len(toks) |-> float(toks[i])]
    IN  IF \E i \in 1..Len(toks) : vals[i].exc # ""
        THEN Raise("ValueError")
        ELSE Return([i \in 1..Len(toks) |-> vals[i].value])

\* for otsl in otsl_tags: ... tables.append(...)
RECURSIVE ParseTables(_, _)
ParseTables(otsl_tags, tables) ==
    IF otsl_tags = <<>> THEN Return(tables)
    ELSE LET otsl == Head(otsl_tags)
             table_data == TableData(otsl)
         IN  IF table_data = <<>> THEN ParseTables(Tail(otsl_tags), tables)
             ELSE LET bbox == ParseBBox(otsl.bbox)
                  IN  IF bbox.exc # "" THEN bbox
                      ELSE ParseTables(Tail(otsl_tags),
                               Append(tables,
                                   [dataframe |-> DataFrame(table_data, StripCells(otsl.header)),
                                    bbox |-> bbox.value,
                                    raw_tag |-> otsl]))

\* for txt in text_tags: ... text_blocks.append(...)
RECURSIVE ParseTexts(_, _)
ParseTexts(text_tags, text_blocks) ==
    IF text_tags = <<>> THEN Return(text_blocks)
    ELSE LET txt == Head(text_tags)
             content == strip(txt.text)
         IN  IF content = "" THEN ParseTexts(Tail(text_tags), text_blocks)
             ELSE LET bbox == ParseBBox(txt.bbox)
                  IN  IF bbox.exc # "" THEN bbox
                      ELSE ParseTexts(Tail(text_tags),
                               Append(text_blocks, [content |-> content, bbox |-> bbox.value]))

parse_doctags(xml) ==
    LET tables == ParseTables(find_all(xml, "otsl"), <<>>)
    IN  IF tables.exc # "" THEN tables
        ELSE LET text_blocks == ParseTexts(find_all(xml, "text"), <<>>)
             IN  IF text_blocks.exc # "" THEN text_blocks
                 ELSE Return([tables |-> tables.value, text_blocks |-> text_blocks.value])

---------------------------------------------------------------------------
(* extract_financial_metrics                                               *)

target_metrics == <<"Revenue", "Net Income", "EPS", "Earnings Per Share">>

row_height == 25
header_height == 30

\* metrics[key] = val on a dict: an existing key keeps its place and takes the
\* new value, a new key is added at the end
DictSetKeepFirst(d, key, val) ==
    IF \E i \in 1..Len(d) : d[i][1] = key THEN d ELSE Append(d, <<key, val>>)

DictSet(d, key, val) ==
    IF \E i \in 1..Len(d) : d[i][1] = key
    THEN [i \in 1..Len(d) |-> IF d[i][1] = key THEN <<key, val>> ELSE d[i]]
    ELSE Append(d, <<key, val>>)

\* df.columns[i], i counted from 0
ColumnAt(df, i) ==
    IF i + 1 <= Len(df.columns) THEN Return(df.columns[i + 1]) ELSE Raise("IndexError")

\* row[col] of a row of df.iterrows(): the cell under the column labelled col;
\* with the label repeated pandas gives a Series, on which .lower() fails
RowGet(df, row, col) ==
    LET at == {p \in 1..Len(df.columns) : df.columns[p] = col}
    IN  IF Cardinality(at) = 1 THEN Return(row[CHOOSE p \in at : TRUE])
        ELSE Raise("AttributeError")

\* lst[i], i counted from 0
ListAt(lst, i) == IF i + 1 <= Len(lst) THEN Return(lst[i + 1]) ELSE Raise("IndexError")

IsTargetMetricCaseSensitive(label) ==
    \E k \in 1..Len(target_metrics) : Contains(target_metrics[k], label)

\* any(tm.lower() in label.lower() for tm in target_metrics)
IsTargetMetric(label) ==
    \E k \in 1..Len(target_metrics) : Contains(lower(target_metrics[k]), lower(label))

\* label.split('(')[0].strip()
CleanKey(label) == strip(SplitFirst(label, "("))

RowTopOffByOne(y, index) == y + header_height + ((index + 1) * row_height)

\* y1 = tbl_bbox[1] + header_height + (index * row_height)
RowTop(y, index) == y + header_height + (index * row_height)

\* the body of "for index, row in df.iterrows()" for one row; acc holds the
\* metrics and viz_elements built so far
ExtractRow(acc, table_info, metric_col, value_col, index) ==
    LET df == table_info.dataframe
        row == df.data[index + 1]
        label == RowGet(df, row, metric_col)
        val == RowGet(df, row, value_col)
    IN  IF label.exc # "" THEN label
        ELSE IF val.exc # "" THEN val
        ELSE IF ~IsTargetMetric(label.value) THEN Return(acc)
        ELSE LET clean_key == CleanKey(label.value)
                 tbl_bbox == table_info.bbox
                 b0 == ListAt(tbl_bbox, 0)
                 b1 == ListAt(tbl_bbox, 1)
                 b2 == ListAt(tbl_bbox, 2)
             IN  IF b1.exc # "" THEN b1
                 ELSE IF b0.exc # "" THEN b0
                 ELSE IF b2.exc # "" THEN b2
                 ELSE LET y1 == RowTop(b1.value, index)
                          y2 == y1 + row_height
                      IN  Return([metrics |-> DictSet(acc.metrics, clean_key, val.value),
                                  viz_elements |-> Append(acc.viz_elements,
                                      [bbox |-> <<b0.value, y1, b2.value, y2>>,
                                       label |-> clean_key \o ": " \o val.value,
                                       type |-> "metric_table",
                                       color |-> "blue"])])

\* for index, row in df.iterrows(), from row index on
RECURSIVE ExtractRows(_, _, _, _, _)
ExtractRows(acc, table_info, metric_col, value_col, index) ==
    IF index >= Len(table_info.dataframe.data) THEN Return(acc)
    ELSE LET next == ExtractRow(acc, table_info, metric_col, value_col, index)
         IN  IF next.exc # "" THEN next
             ELSE ExtractRows(next.value, table_info, metric_col, value_col, index + 1)

\* the first "for table_info in parsed_document['tables']" loop
RECURSIVE ExtractTables(_, _)
ExtractTables(acc, tables) ==
    IF tables = <<>> THEN Return(acc)
    ELSE LET table_info == Head(tables)
             metric_col == ColumnAt(table_info.dataframe, 0)
             value_col == ColumnAt(table_info.dataframe, 1)
         IN  IF metric_col.exc # "" THEN metric_col
             ELSE IF value_col.exc # "" THEN value_col
             ELSE LET next == ExtractRows(acc, table_info, metric_col.value, value_col.value, 0)
                  IN  IF next.exc # "" THEN next
                      ELSE ExtractTables(next.value, Tail(tables))

TableRegionsButLast(tables) ==
    [t \in 1..(Len(tables) - 1) |->
        [bbox |-> tables[t].bbox, label |-> "Detected Table", type |-> "table",
         color |-> "purple"]]

\* the second loop: one region per table
TableRegions(tables) ==
    [t \in 1..Len(tables) |->
        [bbox |-> tables[t].bbox, label |-> "Detected Table", type |-> "table",
         color |-> "purple"]]

NewVizElementsLeaked == visualization_elements

\* viz_elements = []
NewVizElements == <<>>

\* metrics = {}
NewMetrics == <<>>

extract_financial_metrics(doc) ==
    LET rows == ExtractTables([metrics |-> NewMetrics, viz_elements |-> NewVizElements],
                              doc.tables)
    IN  IF rows.exc # "" THEN rows
        ELSE Return([metrics |-> rows.value.metrics,
                     viz_elements |-> rows.value.viz_elements \o TableRegions(doc.tables)])

\* a table of parsed_document when extract_financial_metrics is over: df and
\* tbl_bbox name the table's own frame and list, which the two loops only read
\* (df.columns[k], df.iterrows(), tbl_bbox[k]); every store of the function
\* goes to its locals metrics and viz_elements
TableAfterExtract(table_info) == table_info

\* the argument of extract_financial_metrics when the call is over
DocumentAfterExtract(doc) ==
    [doc EXCEPT !.tables = [t \in DOMAIN doc.tables |-> TableAfterExtract(doc.tables[t])]]

---------------------------------------------------------------------------
(* export_financial_data                                                   *)
(*                                                                         *)
(* A cell of the combined frame is NaN or holds a string.  The CSV text is *)
(* modelled as its lines, each the sequence of its fields, the header line *)
(* first; the JSON text as the JSON document it denotes (indent=4 changes  *)
(* only the white space between its tokens).                               *)

NaN == [isna |-> TRUE]
Cell(v) == [isna |-> FALSE, value |-> v]

\* df.insert(0, column, value)
Insert0(df, column, value) ==
    IF \E p \in 1..Len(df.columns) : df.columns[p] = column
    THEN Raise("ValueError")
    ELSE Return([columns |-> <<column>> \o df.columns,
                 data |-> [r \in 1..Len(df.data) |-> <<value>> \o df.data[r]]])

\* df.empty
IsEmptyFrame(df) == Len(df.data) = 0 \/ Len(df.columns) = 0

\* pd.DataFrame(list(extracted_metrics.items()), columns=['Metric', 'Value'])
\* followed by metrics_df.insert(0, 'Data_Type', 'Key Metrics')
MetricsFrame(extracted_metrics) ==
    Insert0([columns |-> <<"Metric", "Value">>,
             data |-> [i \in 1..Len(extracted_metrics) |->
                          <<extracted_metrics[i][1], extracted_metrics[i][2]>>]],
            "Data_Type", "Key Metrics").value

TableNameFromZero(prefix, i) == prefix \o str(i)

\* f'Table_{i+1}' and f"table_{i+1}", i the index enumerate() gives
TableName(prefix, i) == prefix \o str(i + 1)

\* df = table_info["dataframe"].copy(): df is a frame of its own with the
\* columns and rows of table_info["dataframe"]; shared tells whether a store
\* into df is a store into table_info["dataframe"] as well
FrameAlias(dataframe) == [frame |-> dataframe, shared |-> TRUE]
FrameCopy(dataframe) == [frame |-> dataframe, shared |-> FALSE]

\* for i, table_info in enumerate(parsed_tables): the frames appended to
\* all_tables_df_list, from index i on
RECURSIVE TableFrames(_, _, _)
TableFrames(parsed_tables, i, all_tables_df_list) ==
    IF i >= Len(parsed_tables) THEN Return(all_tables_df_list)
    ELSE LET df == FrameCopy(parsed_tables[i + 1].dataframe).frame
         IN  IF IsEmptyFrame(df) THEN TableFrames(parsed_tables, i + 1, all_tables_df_list)
             ELSE LET tagged == Insert0(df, "Data_Type", TableName("Table_", i))
                  IN  IF tagged.exc # "" THEN tagged
                      ELSE TableFrames(parsed_tables, i + 1,
                                       Append(all_tables_df_list, tagged.value))

\* parsed_tables as the loop above leaves it, from index i on: df.insert stores
\* into df, which reaches table_info["dataframe"] only when the two are one
\* object; an insert that raises ends the loop
RECURSIVE TablesAfterFrames(_, _)
TablesAfterFrames(parsed_tables, i) ==
    IF i >= Len(parsed_tables) THEN parsed_tables
    ELSE LET df == FrameCopy(parsed_tables[i + 1].dataframe)
         IN  IF IsEmptyFrame(df.frame) THEN TablesAfterFrames(parsed_tables, i + 1)
             ELSE LET tagged == Insert0(df.frame, "Data_Type", TableName("Table_", i))
                  IN  IF tagged.exc # "" THEN parsed_tables
                      ELSE IF df.shared
                           THEN TablesAfterFrames(
                                    [parsed_tables EXCEPT ![i + 1].dataframe = tagged.value],
                                    i + 1)
                           ELSE TablesAfterFrames(parsed_tables, i + 1)

\* the columns of pd.concat(frames, sort=False): every label once, in the order
\* of its first appearance
RECURSIVE UnionColumns(_, _)
UnionColumns(frames, seen) ==
    IF frames = <<>> THEN seen
    ELSE LET cols == Head(frames).columns
             fresh == SelectSeq(cols, LAMBDA c : \A p \in 1..Len(seen) : seen[p] # c)
         IN  UnionColumns(Tail(frames), seen \o fresh)

\* one row of a frame laid out under the combined columns
Reindex(df, row, columns) ==
    [p \in 1..Len(columns) |->
        IF \E q \in 1..Len(df.columns) : df.columns[q] = columns[p]
        THEN Cell(row[CHOOSE q \in 1..Len(df.columns) : df.columns[q] = columns[p]])
        ELSE NaN]

RECURSIVE ConcatRows(_, _)
ConcatRows(frames, columns) ==
    IF frames = <<>> THEN <<>>
    ELSE LET df == Head(frames)
         IN  [r \in 1..Len(df.data) |-> Reindex(df, df.data[r], columns)]
             \o ConcatRows(Tail(frames), columns)

\* pd.concat(final_df_list, ignore_index=True, sort=False)
Concat(frames) ==
    LET columns == UnionColumns(frames, <<>>)
    IN  [columns |-> columns, data |-> ConcatRows(frames, columns)]

ToCsvNaNWritten(df) ==
    <<df.columns>> \o
    [r \in 1..Len(df.data) |->
        [p \in 1..Len(df.columns) |->
            IF df.data[r][p].isna THEN "NaN" ELSE df.data[r][p].value]]

\* combined_df.to_csv(csv_buffer, index=False): NaN is written as the empty field
ToCsv(df) ==
    <<df.columns>> \o
    [r \in 1..Len(df.data) |->
        [p \in 1..Len(df.columns) |->
            IF df.data[r][p].isna THEN "" ELSE df.data[r][p].value]]

JString(text) == [type |-> "string", text |-> text]
JArray(items) == [type |-> "array", items |-> items]
JObject(members) == [type |-> "object", members |-> members]

\* dict(zip(columns, row))
RECURSIVE ZipDict(_, _, _)
ZipDict(columns, row, d) ==
    IF columns = <<>> THEN d
    ELSE ZipDict(Tail(columns), Tail(row), DictSet(d, Head(columns), Head(row)))

\* df.to_dict(orient="records")
ToDictRecords(df) == [r \in 1..Len(df.data) |-> ZipDict(df.columns, df.data[r], <<>>)]

\* json.dumps of a dict whose values are strings
DumpsStrDict(d) == JObject([i \in 1..Len(d) |-> <<d[i][1], JString(d[i][2])>>])

\* json.dumps of a list of such dicts
DumpsRecords(records) == JArray([r \in 1..Len(records) |-> DumpsStrDict(records[r])])

\* the loop that fills json_output["tables"], from index i on
RECURSIVE JsonTables(_, _, _)
JsonTables(parsed_tables, i, tables) ==
    IF i >= Len(parsed_tables) THEN tables
    ELSE LET df == parsed_tables[i + 1].dataframe
         IN  IF IsEmptyFrame(df) THEN JsonTables(parsed_tables, i + 1, tables)
             ELSE JsonTables(parsed_tables, i + 1,
                      Append(tables,
                          JObject(<< <<TableName("table_", i),
                                       DumpsRecords(ToDictRecords(df))>> >>)))

export_financial_data(extracted_metrics, parsed_tables) ==
    LET metrics_df == MetricsFrame(extracted_metrics)
        all_tables_df_list == TableFrames(parsed_tables, 0, <<>>)
    IN  IF all_tables_df_list.exc # "" THEN all_tables_df_list
        ELSE LET combined_df == Concat(<<metrics_df>> \o all_tables_df_list.value)
                 csv_content == ToCsv(combined_df)
                 json_content ==
                     JObject(<< <<"key_metrics", DumpsStrDict(extracted_metrics)>>,
                                <<"tables",
                                  JArray(JsonTables(TablesAfterFrames(parsed_tables, 0),
                                                    0, <<>>))>> >>)
             IN  Return([csv_content |-> csv_content, json_content |-> json_content])

\* the two arguments of export_financial_data when the call is over.  The
\* function reads extracted_metrics (items(), json.dumps) and binds it into
\* json_output, and stores into neither; its stores into frames are those of
\* the loop over parsed_tables
ArgumentsAfterExport(extracted_metrics, parsed_tables) ==
    [extracted_metrics |-> extracted_metrics,
     parsed_tables |-> TablesAfterFrames(parsed_tables, 0)]

---------------------------------------------------------------------------
(* The calls, as steps of a session.  A field of st.session_state that is  *)
(* still None is absent from assigned and holds the empty value of its     *)
(* type.  A call that raises ends the script run: nothing is assigned and  *)
(* raised names the exception.                                             *)

SeqUpTo(S, n) == UNION {[1..k -> S] : k \in 0..n}

NoDocument == [tables |-> <<>>, text_blocks |-> <<>>]

\* parsed = parse_doctags(xml_out); st.session_state.parsed_document = parsed
ParseDoctags ==
    /\ "doctags_xml" \in assigned
    /\ "parsed_document" \notin assigned
    /\ raised = ""
    /\ LET r == parse_doctags(doctags_xml)
       IN  IF r.exc = ""
           THEN /\ parsed_document' = r.value
                /\ assigned' = assigned \cup {"parsed_document"}
                /\ raised' = ""
           ELSE /\ raised' = r.exc
                /\ UNCHANGED <<parsed_document, assigned>>
    /\ UNCHANGED <<doctags_xml, financial_metrics, visualization_elements,
                   extracted_df_csv_content, extracted_json_content,
                   extract_cache, extract_calls, upload_vars>>

\* @st.cache_data on extract_financial_metrics: a call with an argument the
\* store holds returns the stored value, any other call runs the function
CachedExtract(cache, doc) ==
    IF \E e \in cache : e[1] = doc
    THEN Return((CHOOSE e \in cache : e[1] = doc)[2])
    ELSE extract_financial_metrics(doc)

\* metrics, viz_elems = extract_financial_metrics(parsed), and the two
\* assignments to st.session_state that follow it
CallExtract ==
    /\ "parsed_document" \in assigned
    /\ Len(extract_calls) < MaxCalls
    /\ LET r == CachedExtract(extract_cache, parsed_document)
           cached == \E e \in extract_cache : e[1] = parsed_document
       IN  /\ extract_calls' = Append(extract_calls,
                  [arg |-> parsed_document, outcome |-> r, cached |-> cached])
           /\ parsed_document' = IF cached THEN parsed_document
                                  ELSE DocumentAfterExtract(parsed_document)
           /\ IF r.exc = ""
              THEN /\ extract_cache' = extract_cache \cup {<<parsed_document, r.value>>}
                   /\ financial_metrics' = r.value.metrics
                   /\ visualization_elements' = r.value.viz_elements
                   /\ assigned' = assigned \cup {"financial_metrics", "visualization_elements"}
                   /\ raised' = ""
              ELSE /\ raised' = r.exc
                   /\ UNCHANGED <<extract_cache, financial_metrics, visualization_elements,
                                  assigned>>
    /\ UNCHANGED <<doctags_xml, extracted_df_csv_content, extracted_json_content,
                   upload_vars>>

\* the st.cache_data store is emptied (Streamlit's "Clear cache"): the next
\* call runs the function again
ClearCache ==
    /\ extract_cache # {}
    /\ extract_cache' = {}
    /\ UNCHANGED <<doctags_xml, parsed_document, financial_metrics, visualization_elements,
                   extracted_df_csv_content, extracted_json_content, assigned, raised,
                   extract_calls, upload_vars>>

\* csv_d, json_d = export_financial_data(metrics, parsed["tables"]), and the
\* two assignments to st.session_state that follow it
ExportFinancialData ==
    /\ {"parsed_document", "financial_metrics"} \subseteq assigned
    /\ "extracted_df_csv_content" \notin assigned
    /\ raised = ""
    /\ LET r == export_financial_data(financial_metrics, parsed_document.tables)
           after == ArgumentsAfterExport(financial_metrics, parsed_document.tables)
       IN  /\ financial_metrics' = after.extracted_metrics
           /\ parsed_document' = [parsed_document EXCEPT !.tables = after.parsed_tables]
           /\ IF r.exc = ""
              THEN /\ extracted_df_csv_content' = r.value.csv_content
                   /\ extracted_json_content' = r.value.json_content
                   /\ assigned' = assigned \cup {"extracted_df_csv_content",
                                                 "extracted_json_content"}
                   /\ raised' = ""
              ELSE /\ raised' = r.exc
                   /\ UNCHANGED <<extracted_df_csv_content, extracted_json_content,
                                  assigned>>
    /\ UNCHANGED <<doctags_xml, visualization_elements, extract_cache, extract_calls,
                   upload_vars>>

\* every field of st.session_state is None
NothingAssigned ==
    /\ parsed_document = NoDocument
    /\ financial_metrics = <<>>
    /\ visualization_elements = <<>>
    /\ extracted_df_csv_content = <<>>
    /\ extracted_json_content = JObject(<<>>)
    /\ raised = ""
    /\ extract_cache = {}
    /\ extract_calls = <<>>

\* the "Upload Document" page is shown and no file has been chosen
NothingUploaded ==
    /\ page = "Upload Document"
    /\ uploaded_file = <<>>
    /\ uploaded_pdf_file = ""
    /\ last_run = <<>>

---------------------------------------------------------------------------
(* The pages of the application.  Every step is one run of the script: the *)
(* user changes a widget, the script runs from the top with the widgets'   *)
(* new values.  A file is the bytes it holds, a str; the processed image   *)
(* and all_elements_for_viz are followed by name only (in assigned), no    *)
(* code of the model reads what they hold.                                 *)

Pages == {"Introduction", "Upload Document", "Review & Export"}

\* create_sample_financial_report_bytes()
SampleBytes == "%PDF-1.4 FinTech Corp Financial Report 2023"

\* st.number_input("Select Page Number", min_value=1, max_value=5, value=1) - 1
PageNumbers == {n - 1 : n \in 1..5}

\* if st.session_state.uploaded_pdf_file: None and b"" are false
PdfLoaded == "uploaded_pdf_file" \in assigned /\ uploaded_pdf_file # ""

process_document_page_by_page(pdf_file_bytes, page_number) == IF page_number = 0 THEN FixtureXml ELSE <<Text("60 2x0 550 350", "Page")>>

\* SmolDoclingClient.process_document_page: the same document for any input
process_document_page(pdf_file_bytes, page_number) == FixtureXml

\* the sidebar radio selects page p; a page that is not drawn drops the state
\* of its widgets, so the uploader is empty when its page is shown again
Navigate(p) ==
    /\ p # page
    /\ page' = p
    /\ uploaded_file' = <<>>
    /\ UNCHANGED <<doctags_xml, parsed_document, financial_metrics, visualization_elements,
                   extracted_df_csv_content, extracted_json_content, assigned, raised,
                   extract_cache, extract_calls, uploaded_pdf_file, last_run>>

\* the user puts file f into the uploader:
\* st.session_state.uploaded_pdf_file = uploaded_file.getvalue()
UploadFile(f) ==
    /\ page = "Upload Document"
    /\ uploaded_file # <<f>>
    /\ uploaded_file' = <<f>>
    /\ uploaded_pdf_file' = f
    /\ assigned' = assigned \cup {"uploaded_pdf_file"}
    /\ UNCHANGED <<doctags_xml, parsed_document, financial_metrics, visualization_elements,
                   extracted_df_csv_content, extracted_json_content, raised,
                   extract_cache, extract_calls, page, last_run>>

\* the user takes the file out of the uploader: uploaded_file is None, the
\* session keeps the bytes it has
RemoveFile ==
    /\ page = "Upload Document"
    /\ uploaded_file # <<>>
    /\ uploaded_file' = <<>>
    /\ UNCHANGED <<doctags_xml, parsed_document, financial_metrics, visualization_elements,
                   extracted_df_csv_content, extracted_json_content, assigned, raised,
                   extract_cache, extract_calls, page, uploaded_pdf_file, last_run>>

\* "Use Sample Financial Report": the sample is stored, and then a file the
\* uploader holds is stored over it
UseSample ==
    /\ page = "Upload Document"
    /\ uploaded_pdf_file' = IF uploaded_file # <<>> THEN uploaded_file[1] ELSE SampleBytes
    /\ assigned' = assigned \cup {"uploaded_pdf_file"}
    /\ UNCHANGED <<doctags_xml, parsed_document, financial_metrics, visualization_elements,
                   extracted_df_csv_content, extracted_json_content, raised,
                   extract_cache, extract_calls, page, uploaded_file, last_run>>

\* "Process Document" with page number page_num: the six steps of the handler
\* in one script run.  A step that raises ends the run, with the fields the
\* steps before it assigned.  parsed and metrics are the objects the session
\* holds, so the session sees them as extract and export leave them.
ProcessDocument(page_num) ==
    /\ page = "Upload Document"
    /\ PdfLoaded
    /\ Len(extract_calls) < MaxCalls
    /\ \E xml_out \in {process_document_page(uploaded_pdf_file, page_num)} :
       \E parsed \in {parse_doctags(xml_out)} :
       \E cached \in {parsed.exc = "" /\ \E e \in extract_cache : e[1] = parsed.value} :
       \E extracted \in {IF parsed.exc # "" THEN parsed
                          ELSE CachedExtract(extract_cache, parsed.value)} :
       \E doc \in {IF parsed.exc # "" THEN parsed_document
                    ELSE IF cached THEN parsed.value
                    ELSE DocumentAfterExtract(parsed.value)} :
       \E exported \in {IF extracted.exc # "" THEN extracted
                         ELSE export_financial_data(extracted.value.metrics, doc.tables)} :
       \E after \in {IF extracted.exc # ""
                      THEN [extracted_metrics |-> financial_metrics,
                            parsed_tables |-> doc.tables]
                      ELSE ArgumentsAfterExport(extracted.value.metrics, doc.tables)} :
           /\ last_run' = <<[pdf |-> uploaded_pdf_file, page_number |-> page_num]>>
           /\ doctags_xml' = xml_out
           /\ parsed_document' = [doc EXCEPT !.tables = after.parsed_tables]
           /\ financial_metrics' = after.extracted_metrics
           /\ visualization_elements' = IF extracted.exc # "" THEN visualization_elements
                                        ELSE extracted.value.viz_elements
           /\ extracted_df_csv_content' = IF exported.exc # "" THEN extracted_df_csv_content
                                          ELSE exported.value.csv_content
           /\ extracted_json_content' = IF exported.exc # "" THEN extracted_json_content
                                        ELSE exported.value.json_content
           /\ assigned' = assigned \cup {"processed_image", "doctags_xml"}
                  \cup (IF parsed.exc # "" THEN {} ELSE {"parsed_document"})
                  \cup (IF extracted.exc # "" THEN {}
                        ELSE {"financial_metrics", "visualization_elements",
                              "all_elements_for_viz"})
                  \cup (IF exported.exc # "" THEN {}
                        ELSE {"extracted_df_csv_content", "extracted_json_content"})
           /\ raised' = exported.exc
           /\ extract_calls' = IF parsed.exc # "" THEN extract_calls
                               ELSE Append(extract_calls,
                                        [arg |-> parsed.value, outcome |-> extracted,
                                         cached |-> cached])
           /\ extract_cache' = IF extracted.exc # "" THEN extract_cache
                               ELSE extract_cache \cup {<<parsed.value, extracted.value>>}
    /\ UNCHANGED <<page, uploaded_file, uploaded_pdf_file>>

---------------------------------------------------------------------------
(* parse_doctags on the documents of ParseXmls.                            *)

ParseBBoxPool ==
    {"60 200 550 350", " 10  20\t30 40 ", "60 200 550", "1 2 3 4 5", "60 2x0 550 350"}

ParseHeader == <<" Metric ", "2023 (in Millions)">>

ParseRowsPool ==
    { << <<"Total Revenue", " $1234.56 ">>, <<"Net Income", "$384.56">> >>,
      << <<"Total Revenue", "$1234.56">>, <<"Operating Expenses">>,
         <<"Net Income", "$384.56", "$279.70">>, <<" EPS", "0.52">> >>,
      << <<"Operating Expenses">>, <<"Net Income", "$384.56", "$279.70">> >> }

ParseTextPool == {" Management expects continued growth. ", " \n\t "}

ParseElements ==
    {Otsl(b, ParseHeader, rows) : b \in ParseBBoxPool, rows \in ParseRowsPool}
    \cup {Text(b, t) : b \in ParseBBoxPool, t \in ParseTextPool}

ParseXmls == SeqUpTo(ParseElements, MaxElements) \cup {FixtureXml}

InitParse ==
    /\ doctags_xml \in ParseXmls
    /\ assigned = {"doctags_xml"}
    /\ NothingAssigned
    /\ NothingUploaded

NextParse == ParseDoctags

SpecParse == InitParse /\ [][NextParse]_vars

---------------------------------------------------------------------------
(* Properties of parse_doctags.                                            *)

\* the k-th smallest element of a finite set of numbers
NthOf(S, k) == CHOOSE x \in S : Cardinality({y \in S : y <= x}) = k

ParseReturned == "parsed_document" \in assigned
ParseRaised == raised # ""

OtslIdx == {i \in 1..Len(doctags_xml) : doctags_xml[i].tag = "otsl"}

\* the rows of a table element whose cell count is the header's
ValidRowIdx(e) == {i \in 1..Len(e.rows) : Len(e.rows[i]) = Len(e.header)}

\* table holds exactly the valid rows of element e, in their order
HoldsValidRowsOf(table, e) ==
    /\ Len(table.dataframe.data) = Cardinality(ValidRowIdx(e))
    /\ \A k \in 1..Len(table.dataframe.data) :
          table.dataframe.data[k] = StripCells(e.rows[NthOf(ValidRowIdx(e), k)])

HasNonNumericToken(attr) ==
    \E k \in 1..Len(split(attr)) : float(split(attr)[k]).exc # ""

\* C1, as stated: every table element has a resulting table, which holds
\* exactly the element's rows whose cell count equals the header's, in order.
C1_EveryElementHasItsTable ==
    ParseReturned =>
        /\ Len(parsed_document.tables) = Cardinality(OtslIdx)
        /\ \A k \in 1..Len(parsed_document.tables) :
              HoldsValidRowsOf(parsed_document.tables[k], doctags_xml[NthOf(OtslIdx, k)])

\* C1, amended: the resulting tables are those of the table elements that have
\* at least one row whose cell count equals the header's, in document order;
\* each holds exactly those rows of its element, in their original order, so
\* its row count is the count of valid rows.  A table element with no such row
\* yields no table.  A row of another length never makes the call raise.
C1_ValidRowsKept ==
    LET kept == {i \in OtslIdx : ValidRowIdx(doctags_xml[i]) # {}}
    IN  /\ ParseReturned =>
              /\ Len(parsed_document.tables) = Cardinality(kept)
              /\ \A k \in 1..Len(parsed_document.tables) :
                    HoldsValidRowsOf(parsed_document.tables[k], doctags_xml[NthOf(kept, k)])
        /\ ParseRaised =>
              \E i \in 1..Len(doctags_xml) : HasNonNumericToken(doctags_xml[i].bbox)

\* a parsed document with a table element that mixes valid rows with rows of
\* another length
C1_Witness ==
    /\ ParseReturned
    /\ \E i \in OtslIdx :
          /\ ValidRowIdx(doctags_xml[i]) # {}
          /\ Cardinality(ValidRowIdx(doctags_xml[i])) < Len(doctags_xml[i].rows)

\* a bbox attribute of exactly four whitespace-separated numeric tokens
IsFourNumbers(attr) == Len(split(attr)) = 4 /\ ~HasNonNumericToken(attr)

\* C5, as stated: parse_doctags raises, and returns nothing, whenever the bbox
\* of some table or text element is not exactly four numeric tokens; a bbox of
\* four numeric tokens becomes a list of four floats.
C5_MalformedBBoxRaises ==
    (ParseReturned \/ ParseRaised) =>
        /\ (\E i \in 1..Len(doctags_xml) :
               /\ doctags_xml[i].tag \in {"otsl", "text"}
               /\ ~IsFourNumbers(doctags_xml[i].bbox))
           => (ParseRaised /\ ~ParseReturned)
        /\ ParseReturned =>
              /\ \A t \in 1..Len(parsed_document.tables) :
                    IsFourNumbers(parsed_document.tables[t].raw_tag.bbox)
                        => Len(parsed_document.tables[t].bbox) = 4
              /\ \A t \in 1..Len(parsed_document.text_blocks) :
                    Len(parsed_document.text_blocks[t].bbox) = 4

TextIdx == {i \in 1..Len(doctags_xml) : doctags_xml[i].tag = "text"}

\* s holds whitespace only
IsBlank(s) == \A i \in 1..Len(s) : CharAt(s, i) \in Whitespace

\* c is s without the whitespace s starts and ends with
IsTrimOf(c, s) ==
    /\ c # ""
    /\ CharAt(c, 1) \notin Whitespace
    /\ CharAt(c, Len(c)) \notin Whitespace
    /\ \E i \in 1..Len(s) :
          /\ i + Len(c) - 1 <= Len(s)
          /\ SubSeq(s, i, i + Len(c) - 1) = c
          /\ IsBlank(SubSeq(s, 1, i - 1))
          /\ IsBlank(SubSeq(s, i + Len(c), Len(s)))

\* bbox holds the numbers of the whitespace-separated tokens of attr, in order
IsBBoxOf(bbox, attr) ==
    /\ Len(bbox) = Len(split(attr))
    /\ \A k \in 1..Len(bbox) : float(split(attr)[k]) = Return(bbox[k])

\* C12: when parse_doctags returns, its text blocks are those of the text
\* elements whose content is not empty after trimming, in document order, each
\* holding the trimmed content and the numbers of the element's bbox; an
\* element that trims to empty has no block.  The tables are in the document
\* order of their elements.
C12_TextBlocksInOrder ==
    ParseReturned =>
        LET kept == {i \in TextIdx : ~IsBlank(doctags_xml[i].text)}
            keptTables == {i \in OtslIdx : ValidRowIdx(doctags_xml[i]) # {}}
            blocks == parsed_document.text_blocks
        IN  /\ Len(blocks) = Cardinality(kept)
            /\ \A k \in 1..Len(blocks) :
                  /\ IsTrimOf(blocks[k].content, doctags_xml[NthOf(kept, k)].text)
                  /\ IsBBoxOf(blocks[k].bbox, doctags_xml[NthOf(kept, k)].bbox)
            /\ \A k \in 1..Len(parsed_document.tables) :
                  parsed_document.tables[k].raw_tag = doctags_xml[NthOf(keptTables, k)]

\* a parsed document with a text element that trims to empty followed by one
\* whose content has whitespace around it
C12_Witness ==
    /\ ParseReturned
    /\ \E i, j \in TextIdx :
          /\ i < j
          /\ IsBlank(doctags_xml[i].text)
          /\ ~IsBlank(doctags_xml[j].text)
          /\ CharAt(doctags_xml[j].text, 1) \in Whitespace
    /\ Len(parsed_document.text_blocks) = 1

---------------------------------------------------------------------------
(* parse_doctags, then extract_financial_metrics, on the documents of      *)
(* ExtractXmls: tables of valid rows under distinct header names.          *)

FixtureOtsl == FixtureXml[3]

ExtractOtslPool ==
    { FixtureOtsl,
      \* two rows that clean to one key
      Otsl("10 400 300 500", <<"Metric", "2023">>,
           << <<"Net Income", "$1">>, <<"Net Income (adjusted)", "$2">> >>),
      \* no row matches
      Otsl("10 400 300 500", <<"Metric", "2023">>,
           << <<"Operating Expenses", "$850.00">>, <<"Costs (net)", "$5">> >>),
      \* the fixture's first key with another value
      Otsl("10 400 300 500", <<"Metric", "2023">>,
           << <<"Margin", "Revenue">>, <<" Total Revenue ", "$2">> >>),
      \* three columns, upper case, a term inside the parentheses only
      Otsl("0 0 100 100", <<"Metric", "2023", "2022">>,
           << <<"NET INCOME", "$9", "$8">>, <<"Diluted (EPS)", "0.5", "0.4">>,
              <<"Revenues", "$6", "$7">> >>),
      \* keys cut at the first parenthesis
      Otsl("0 0 100 100", <<"Metric", "2023">>,
           << <<"(Revenue)", "$3">>, <<"Revenue ( a ) (b)", "$4">> >>),
      \* one column
      Otsl("0 0 100 100", <<"Metric">>, << <<"Revenue">> >>),
      Otsl("0 0 100 100", <<"Note">>, << <<"n/a">> >>) }

ExtractXmls == SeqUpTo(ExtractOtslPool, MaxTables)

InitExtract ==
    /\ doctags_xml \in ExtractXmls
    /\ assigned = {"doctags_xml"}
    /\ NothingAssigned
    /\ NothingUploaded

NextExtract == ParseDoctags \/ CallExtract \/ ClearCache

SpecExtract == InitExtract /\ [][NextExtract]_vars

---------------------------------------------------------------------------
(* Properties of extract_financial_metrics.  They are stated on the parsed *)
(* document by position: column 0 holds the label, column 1 the value, and *)
(* a row is <<t, r>>, table t (from 1) and row index r (from 0).           *)

\* the last call of extract_financial_metrics returned
ExtractReturned == extract_calls # <<>> /\ raised = ""

Tables == parsed_document.tables

Vocabulary == {"Revenue", "Net Income", "EPS", "Earnings Per Share"}

ScanRows ==
    UNION {{<<t, r>> : r \in 0..(Len(Tables[t].dataframe.data) - 1)} : t \in 1..Len(Tables)}

LabelOf(p) == Tables[p[1]].dataframe.data[p[2] + 1][1]
ValueOf(p) == Tables[p[1]].dataframe.data[p[2] + 1][2]

\* the label contains a vocabulary term, compared case-insensitively
Matched(p) == \E term \in Vocabulary : Contains(lower(term), lower(LabelOf(p)))

\* the label's text strictly before the first "(", trimmed
KeyOf(p) == strip(SplitFirst(LabelOf(p), "("))

MatchedRows == {p \in ScanRows : Matched(p)}

\* scan order: tables in document order, then rows in table order
Before(p, q) == p[1] < q[1] \/ (p[1] = q[1] /\ p[2] < q[2])

\* the position of a matched row among the matched rows, in scan order
RankOf(p) == Cardinality({q \in MatchedRows : Before(q, p)}) + 1

MetricRegions == SelectSeq(visualization_elements, LAMBDA e : e.type = "metric_table")
TableRegionsOf(viz) == SelectSeq(viz, LAMBDA e : e.type = "table")

\* C2: a row has an entry iff its column-0 label contains a vocabulary term
\* (case-insensitively); the key of the entry is the label before the first "("
\* trimmed, its value the row's column-1 string unchanged; the fixture gives
\* exactly Total Revenue, Net Income and Earnings Per Share.
C2_EntryIffLabelMatches ==
    ExtractReturned =>
        /\ {financial_metrics[i][1] : i \in 1..Len(financial_metrics)}
              = {KeyOf(p) : p \in MatchedRows}
        /\ \A i \in 1..Len(financial_metrics) :
              \E p \in MatchedRows : /\ KeyOf(p) = financial_metrics[i][1]
                                     /\ ValueOf(p) = financial_metrics[i][2]
        /\ {e.label : e \in {MetricRegions[k] : k \in 1..Len(MetricRegions)}}
              = {KeyOf(p) \o ": " \o ValueOf(p) : p \in MatchedRows}
        /\ doctags_xml = <<FixtureOtsl>> =>
              financial_metrics = << <<"Total Revenue", "$1234.56">>,
                                     <<"Net Income", "$384.56">>,
                                     <<"Earnings Per Share", "0.52">> >>

\* the fixture's table has been extracted
C2_Witness == ExtractReturned /\ doctags_xml = <<FixtureOtsl>>

\* C3: the mapping holds one entry per distinct cleaned key, and its value is
\* that of the last matched row with this key in scan order.
C3_LastRowWins ==
    ExtractReturned =>
        /\ \A i, j \in 1..Len(financial_metrics) :
              financial_metrics[i][1] = financial_metrics[j][1] => i = j
        /\ \A i \in 1..Len(financial_metrics) :
              LET same == {p \in MatchedRows : KeyOf(p) = financial_metrics[i][1]}
              IN  \E last \in same :
                     /\ \A q \in same : q = last \/ Before(q, last)
                     /\ financial_metrics[i][2] = ValueOf(last)

\* rows of one table, and rows of two tables, share a key with different values
C3_Witness ==
    /\ ExtractReturned
    /\ \E p, q \in MatchedRows :
          /\ p[1] = q[1] /\ p[2] < q[2]
          /\ KeyOf(p) = KeyOf(q) /\ ValueOf(p) # ValueOf(q)
    /\ \E p, q \in MatchedRows :
          /\ p[1] < q[1]
          /\ KeyOf(p) = KeyOf(q) /\ ValueOf(p) # ValueOf(q)

\* C4, as stated: a table with fewer than 2 columns is skipped: the call
\* raises nothing, and the mapping and the metric-row regions are those of the
\* remaining tables.
C4_NarrowTableSkipped ==
    LET wide == SelectSeq(Tables, LAMBDA t : Len(t.dataframe.columns) >= 2)
        rest == extract_financial_metrics([tables |-> wide, text_blocks |-> <<>>])
    IN  (extract_calls # <<>> /\ Len(wide) < Len(Tables)) =>
            /\ raised = ""
            /\ financial_metrics = rest.value.metrics
            /\ MetricRegions =
                   SelectSeq(rest.value.viz_elements, LAMBDA e : e.type = "metric_table")

\* C6: the regions are one "metric_table" region per matched row, also for
\* rows that share a key, and one "table" region per table, labelled "Detected
\* Table" with the table's bounding box; 4 regions on the fixture; no matching
\* row gives an empty mapping and table regions only; no table gives nothing.
C6_RegionsPerRowAndTable ==
    ExtractReturned =>
        /\ Len(MetricRegions) = Cardinality(MatchedRows)
        /\ Len(TableRegionsOf(visualization_elements)) = Len(Tables)
        /\ Len(visualization_elements) = Cardinality(MatchedRows) + Len(Tables)
        /\ \A t \in 1..Len(Tables) :
              /\ TableRegionsOf(visualization_elements)[t].label = "Detected Table"
              /\ TableRegionsOf(visualization_elements)[t].bbox = Tables[t].bbox
        /\ doctags_xml = <<FixtureOtsl>> => Len(visualization_elements) = 4
        /\ MatchedRows = {} =>
              /\ financial_metrics = <<>>
              /\ \A k \in 1..Len(visualization_elements) :
                    visualization_elements[k].type = "table"
        /\ Tables = <<>> => (financial_metrics = <<>> /\ visualization_elements = <<>>)

\* two tables, with more matched rows than keys
C6_Witness ==
    /\ ExtractReturned
    /\ Len(Tables) = 2
    /\ Len(financial_metrics) < Cardinality(MatchedRows)
    /\ Len(visualization_elements) = Cardinality(MatchedRows) + 2

C10_SameDocumentSameResult ==
    \A i, j \in 1..Len(extract_calls) :
        extract_calls[i].arg = extract_calls[j].arg
            => extract_calls[i].outcome = extract_calls[j].outcome

\* the function ran twice on one document (the store was emptied in between)
\* and returned matched rows both times
C10_Witness ==
    \E i, j \in 1..Len(extract_calls) :
        /\ i < j
        /\ extract_calls[i].arg = extract_calls[j].arg
        /\ ~extract_calls[i].cached /\ ~extract_calls[j].cached
        /\ extract_calls[j].outcome.exc = ""
        /\ extract_calls[j].outcome.value.metrics # <<>>

---------------------------------------------------------------------------
(* export_financial_data on a metrics mapping of ExportMetricsPool and a   *)
(* list of the tables of ExportTablePool.                                  *)

\* the table parse_doctags makes of one table element
ParsedTable(otsl) == parse_doctags(<<otsl>>).value.tables[1]

\* a table without rows, which parse_doctags never makes
EmptyTable ==
    [dataframe |-> DataFrame(<<>>, <<"Item", "Amount">>),
     bbox |-> <<0, 0, 100, 100>>,
     raw_tag |-> Otsl("0 0 100 100", <<"Item", "Amount">>, <<>>)]

ExportTablePool ==
    { ParsedTable(FixtureOtsl),
      ParsedTable(Otsl("10 400 300 500", <<"Item", "Amount">>,
                       << <<"Cash", "$10">>, <<"Debt", "">> >>)),
      ParsedTable(Otsl("10 400 300 500", <<"Item", "Value">>, << <<"Cash", "$11">> >>)),
      ParsedTable(Otsl("0 0 100 100", <<"Data_Type", "Amount">>, << <<"Cash", "$12">> >>)),
      ParsedTable(Otsl("0 0 100 100", <<"Note">>, << <<"n/a">> >>)),
      EmptyTable }

ExportMetricsPool ==
    { <<>>,
      << <<"Net Income", "$2">> >>,
      << <<"Total Revenue", "$1234.56">>, <<"Net Income", "$384.56">>,
         <<"Earnings Per Share", "0.52">> >> }

InitExport ==
    /\ doctags_xml = <<>>
    /\ parsed_document \in {[tables |-> ts, text_blocks |-> <<>>] :
                               ts \in SeqUpTo(ExportTablePool, MaxTables)}
    /\ financial_metrics \in ExportMetricsPool
    /\ visualization_elements = <<>>
    /\ extracted_df_csv_content = <<>>
    /\ extracted_json_content = JObject(<<>>)
    /\ assigned = {"parsed_document", "financial_metrics"}
    /\ raised = ""
    /\ extract_cache = {}
    /\ extract_calls = <<>>
    /\ NothingUploaded

NextExport == ExportFinancialData

SpecExport == InitExport /\ [][NextExport]_vars

---------------------------------------------------------------------------
(* Properties of export_financial_data.                                    *)

ExportReturned == "extracted_df_csv_content" \in assigned

\* json.loads: an object becomes a dict (a repeated name keeps its last
\* value), an array a list, a string a str
RECURSIVE JsonLoads(_), JsonLoadMembers(_, _)
JsonLoads(j) ==
    IF j.type = "string" THEN j.text
    ELSE IF j.type = "array" THEN [i \in 1..Len(j.items) |-> JsonLoads(j.items[i])]
    ELSE JsonLoadMembers(j.members, <<>>)
JsonLoadMembers(members, d) ==
    IF members = <<>> THEN d
    ELSE JsonLoadMembers(Tail(members),
             DictSet(d, Head(members)[1], JsonLoads(Head(members)[2])))

\* d[key]
DictGet(d, key) == d[CHOOSE i \in 1..Len(d) : d[i][1] = key][2]

\* the positions of the tables that have rows and columns
NonEmptyTables ==
    {t \in 1..Len(Tables) : /\ Len(Tables[t].dataframe.data) > 0
                            /\ Len(Tables[t].dataframe.columns) > 0}

\* the rows of table t zipped with its headers
RecordsOf(t) ==
    [r \in 1..Len(Tables[t].dataframe.data) |->
        [c \in 1..Len(Tables[t].dataframe.columns) |->
            <<Tables[t].dataframe.columns[c], Tables[t].dataframe.data[r][c]>>]]

\* C8: the JSON text parses back to key_metrics equal to the input mapping and
\* to one single-key object "table_i" per non-empty table at position i, in
\* table order, holding the table's rows zipped with its headers in row
\* order; an empty table has no object.
C8_JsonRoundTrip ==
    ExportReturned =>
        LET loaded == JsonLoads(extracted_json_content)
            tables == DictGet(loaded, "tables")
        IN  /\ {loaded[i][1] : i \in 1..Len(loaded)} = {"key_metrics", "tables"}
            /\ DictGet(loaded, "key_metrics") = financial_metrics
            /\ Len(tables) = Cardinality(NonEmptyTables)
            /\ \A k \in 1..Len(tables) :
                  tables[k] = << <<"table_" \o str(NthOf(NonEmptyTables, k)),
                                   RecordsOf(NthOf(NonEmptyTables, k))>> >>

\* an empty table precedes a non-empty one, with a non-empty mapping
C8_Witness ==
    /\ ExportReturned
    /\ financial_metrics # <<>>
    /\ \E t \in 1..Len(Tables) : t \notin NonEmptyTables /\ t + 1 \in NonEmptyTables

CsvHeader == extracted_df_csv_content[1]

\* the field of a CSV line under the column named name
Field(line, name) == line[CHOOSE p \in 1..Len(CsvHeader) : CsvHeader[p] = name]

\* the CSV line of row r (from 1) of table t: after the header line, the metric
\* lines and the lines of the non-empty tables before t
TableLine(t, r) ==
    extracted_df_csv_content[
        1 + Len(financial_metrics)
          + Cardinality(UNION {{<<u, q>> : q \in 1..Len(Tables[u].dataframe.data)} :
                                  u \in {v \in NonEmptyTables : v < t}})
          + r]

\* the header line, the metric lines, and the lines of the tables in table and
\* row order, each cell under its table's own header column
CsvRowsInOrder ==
    /\ SubSeq(CsvHeader, 1, 3) = <<"Data_Type", "Metric", "Value">>
    /\ \A p, q \in 1..Len(CsvHeader) : CsvHeader[p] = CsvHeader[q] => p = q
    /\ {CsvHeader[p] : p \in 1..Len(CsvHeader)}
          = {"Data_Type", "Metric", "Value"}
            \cup UNION {{Tables[t].dataframe.columns[c] :
                            c \in 1..Len(Tables[t].dataframe.columns)} : t \in NonEmptyTables}
    /\ Len(extracted_df_csv_content)
          = 1 + Len(financial_metrics)
              + Cardinality(UNION {{<<t, r>> : r \in 1..Len(Tables[t].dataframe.data)} :
                                      t \in NonEmptyTables})
    /\ \A i \in 1..Len(financial_metrics) :
          LET line == extracted_df_csv_content[1 + i]
          IN  /\ Field(line, "Data_Type") = "Key Metrics"
              /\ Field(line, "Metric") = financial_metrics[i][1]
              /\ Field(line, "Value") = financial_metrics[i][2]
              /\ \A p \in 4..Len(CsvHeader) : line[p] = ""
    /\ \A t \in NonEmptyTables :
          \A r \in 1..Len(Tables[t].dataframe.data) :
              /\ Field(TableLine(t, r), "Data_Type") = "Table_" \o str(t)
              /\ \A c \in 1..Len(Tables[t].dataframe.columns) :
                    Field(TableLine(t, r), Tables[t].dataframe.columns[c])
                        = Tables[t].dataframe.data[r][c]

\* C9, as stated: metric lines first, then the lines of each table in table
\* and row order with Data_Type "Table_i"; with an empty mapping and one
\* non-empty table the CSV keeps Data_Type, Metric and Value and holds every
\* table row with empty Metric and Value cells.
C9_EmptyMetricAndValueCells ==
    ExportReturned =>
        /\ CsvRowsInOrder
        /\ (financial_metrics = <<>> /\ Len(Tables) = 1 /\ NonEmptyTables = {1}) =>
              /\ Len(extracted_df_csv_content) = 1 + Len(Tables[1].dataframe.data)
              /\ \A r \in 1..Len(Tables[1].dataframe.data) :
                    /\ Field(TableLine(1, r), "Metric") = ""
                    /\ Field(TableLine(1, r), "Value") = ""

\* C9, amended: metric lines first, then the lines of each table in table and
\* row order with Data_Type "Table_i" and each cell under the table's own
\* header column; a table line is empty under every other column.  With an
\* empty mapping and one non-empty table the CSV keeps Data_Type, Metric and
\* Value and holds every table row, whose Metric (Value) cell is empty unless
\* the table has a header named Metric (Value), whose cell it then holds.
C9_CsvLayout ==
    ExportReturned =>
        /\ CsvRowsInOrder
        /\ \A t \in NonEmptyTables :
              \A r \in 1..Len(Tables[t].dataframe.data) :
                  \A p \in 2..Len(CsvHeader) :
                      (\A c \in 1..Len(Tables[t].dataframe.columns) :
                          Tables[t].dataframe.columns[c] # CsvHeader[p])
                      => TableLine(t, r)[p] = ""
        /\ (financial_metrics = <<>> /\ Len(Tables) = 1 /\ NonEmptyTables = {1}) =>
              Len(extracted_df_csv_content) = 1 + Len(Tables[1].dataframe.data)

\* an empty mapping and the one table of the fixture, whose first header is
\* named Metric
C9_Witness ==
    /\ ExportReturned
    /\ financial_metrics = <<>>
    /\ Tables = <<ParsedTable(FixtureOtsl)>>
    /\ Field(TableLine(1, 1), "Metric") = "Total Revenue"
    /\ Field(TableLine(1, 1), "Value") = ""

---------------------------------------------------------------------------
(* The pipeline on the documents of ExtractXmls: parse, then extract (any  *)
(* number of times up to MaxCalls, cached or not) and export in any order. *)

InitPipeline ==
    /\ doctags_xml \in ExtractXmls
    /\ assigned = {"doctags_xml"}
    /\ NothingAssigned
    /\ NothingUploaded

NextPipeline == ParseDoctags \/ CallExtract \/ ClearCache \/ ExportFinancialData

SpecPipeline == InitPipeline /\ [][NextPipeline]_vars

\* the tables parse_doctags returned for the document of the session
TablesAsParsed == parse_doctags(doctags_xml).value.tables

\* the calls of extract_financial_metrics that returned
ReturnedCalls == {k \in DOMAIN extract_calls : extract_calls[k].outcome.exc = ""}

\* the mapping the latest returned call of extract_financial_metrics gave
MetricsAsExtracted == extract_calls[NthOf(ReturnedCalls, Cardinality(ReturnedCalls))]
                          .outcome.value.metrics

\* the export has added its Data_Type column to its own frames
ExportTagged ==
    /\ ExportReturned
    /\ \E l \in 2..Len(extracted_df_csv_content) :
          extracted_df_csv_content[l][1] = "Table_1"

\* C11: extract_financial_metrics and export_financial_data leave their
\* arguments as they were: after any number of calls of either, every parsed
\* table has the headers, rows and bounding box parse_doctags gave it, no
\* parsed table has a Data_Type column, and the metrics mapping is the one
\* the extraction returned.
C11_ArgumentsLeftUnchanged ==
    ParseReturned =>
        /\ Len(Tables) = Len(TablesAsParsed)
        /\ \A t \in DOMAIN Tables :
              /\ Tables[t].dataframe.columns = TablesAsParsed[t].dataframe.columns
              /\ Tables[t].dataframe.data = TablesAsParsed[t].dataframe.data
              /\ Tables[t].bbox = TablesAsParsed[t].bbox
              /\ \A c \in DOMAIN Tables[t].dataframe.columns :
                    Tables[t].dataframe.columns[c] # "Data_Type"
        /\ \A k \in DOMAIN extract_calls : extract_calls[k].arg.tables = TablesAsParsed
        /\ "financial_metrics" \in assigned => financial_metrics = MetricsAsExtracted

\* the extraction ran on a table with a matching row, the export tagged its
\* frame of that table, and the extraction was called again afterwards
C11_Witness ==
    /\ ExportTagged
    /\ financial_metrics # <<>>
    /\ Len(extract_calls) = 2
    /\ ~extract_calls[2].cached
    /\ raised = ""

---------------------------------------------------------------------------
(* The session: page navigation, uploads, sample loads and "Process        *)
(* Document" clicks, from the state the first script run leaves.           *)

UploadPool == {"", "%PDF-1.7 annual report"}

Init ==
    /\ doctags_xml = <<>>
    /\ assigned = {}
    /\ NothingAssigned
    /\ page = "Introduction"
    /\ uploaded_file = <<>>
    /\ uploaded_pdf_file = ""
    /\ last_run = <<>>

Next ==
    \/ \E p \in Pages : Navigate(p)
    \/ \E f \in UploadPool : UploadFile(f)
    \/ RemoveFile
    \/ UseSample
    \/ \E page_num \in PageNumbers : ProcessDocument(page_num)
    \/ ClearCache

Spec == Init /\ [][Next]_vars

\* the pipeline result fields of st.session_state
ResultFields ==
    {"doctags_xml", "parsed_document", "financial_metrics", "visualization_elements",
     "extracted_df_csv_content", "extracted_json_content"}

\* what the steps of one processing run give for the PDF and page number of
\* the latest run
RunXml == process_document_page(last_run[1].pdf, last_run[1].page_number)
RunParsed == parse_doctags(RunXml).value
RunExtracted == extract_financial_metrics(RunParsed).value
RunExported == export_financial_data(RunExtracted.metrics, RunParsed.tables).value

\* "Review & Export" draws the two download buttons
DownloadsOffered ==
    /\ page = "Review & Export"
    /\ "financial_metrics" \in assigned
    /\ financial_metrics # <<>>

\* C13: in every state of the session the six pipeline result fields are all
\* None or all set, and when set they hold what the steps of the latest
\* processing run give; when "Review & Export" offers the downloads both
\* export contents are set; and a processing run has only ever started with
\* a loaded (not None, not empty) PDF.
C13_ResultsAllOrNothing ==
    /\ (ResultFields \cap assigned = {}) \/ (ResultFields \subseteq assigned)
    /\ ResultFields \subseteq assigned =>
          /\ last_run # <<>>
          /\ doctags_xml = RunXml
          /\ parsed_document = RunParsed
          /\ financial_metrics = RunExtracted.metrics
          /\ visualization_elements = RunExtracted.viz_elements
          /\ extracted_df_csv_content = RunExported.csv_content
          /\ extracted_json_content = RunExported.json_content
    /\ (last_run = <<>>) => (ResultFields \cap assigned = {})
    /\ DownloadsOffered =>
          {"extracted_df_csv_content", "extracted_json_content"} \subseteq assigned
    /\ last_run # <<>> => last_run[1].pdf # ""

\* the downloads are offered after a run on an uploaded file and page 3, while
\* the session holds the empty file uploaded afterwards
C13_Witness ==
    /\ DownloadsOffered
    /\ last_run = <<[pdf |-> "%PDF-1.7 annual report", page_number |-> 2]>>
    /\ "uploaded_pdf_file" \in assigned
    /\ uploaded_pdf_file = ""
    /\ Len(extract_calls) = 2
    /\ ResultFields \subseteq assigned

====
